---- MODULE Spec2Model ----
(***************************************************************************)
(* Model of src/app.py: a Flask book catalog with HTTP Basic               *)
(* authentication, owner-scoped update/delete and a users.json credential  *)
(* store.  One action per route handler; each action is the whole request  *)
(* (decorator, handler body, save).                                        *)
(*                                                                         *)
(* Python strings are sequences of one-character strings, so that len(),   *)
(* strip(), isdigit(), isalpha() and int() are computed and not assumed.   *)
(* JSON values are records [t, s, n, o]: a type tag, the characters of a   *)
(* string, the value of an integer, the items of an object in document     *)
(* order (a sequence of <<key, value>> pairs, as a Python dict keeps them).*)
(***************************************************************************)
EXTENDS Integers, Sequences, FiniteSets, TLC

VARIABLES
    books,           \* app.py:33   {book_id: Book}; a Book is its attribute dict
    users,           \* app.py:113  {username: {"password_hash": ...}}
    users_file,      \* app.py:11   content of users.json
    request,         \* flask.request of the request handled last
    response,        \* what the handler (or the decorator) returned for it
    g_current_user,  \* flask.g.current_user of that request, <<>> when unset
    registered,      \* history: the password each account was created with in
                     \* this run (app.py:118 and app.py:252); not read by any action
    nreq,            \* number of requests handled so far
    save_result,     \* app.py:99   how the save_users call of the last step ended:
                     \* "ok", "oserror" (caught at app.py:108), "none" if not called
    phase,           \* "import" before app.py:113 has run, "serving" once the
                     \* module body is through, "crashed" if it raised
    threads          \* app.py:406  the requests the threaded server is handling
                     \* at the same time, each with the line it has reached

vars == <<books, users, users_file, request, response, g_current_user, registered, nreq,
          save_result, phase, threads>>

-----------------------------------------------------------------------------
(* Bounds *)

MaxRequests == 2

-----------------------------------------------------------------------------
(* String literals *)

S_admin == <<"a", "d", "m", "i", "n">>
S_admin123 == <<"a", "d", "m", "i", "n", "1", "2", "3">>
S_carol == <<"c", "a", "r", "o", "l">>
S_mallory == <<"m", "a", "l", "l", "o", "r", "y">>
S_Passw0rd == <<"P", "a", "s", "s", "w", "0", "r", "d">>
S_short1 == <<"s", "h", "o", "r", "t", "1">>
S_BK001 == <<"B", "K", "0", "0", "1">>
S_BK002 == <<"B", "K", "0", "0", "2">>
S_BK003 == <<"B", "K", "0", "0", "3">>
S_BK100 == <<"B", "K", "1", "0", "0">>
S_BK404 == <<"B", "K", "4", "0", "4">>
T1 == <<"D", "e", "s", "i", "g", "n", "i", "n", "g", " ", "Y", "o", "u", "r", " ", "L", "i", "f", "e">>
A1 == <<"B", "i", "l", "l", " ", "B", "u", "r", "n", "e", "t", "t">>
P1 == <<"K", "n", "o", "p", "f">>
G1 == <<"S", "e", "l", "f", "-", "h", "e", "l", "p">>
T2 == <<"A", "t", "o", "m", "i", "c", " ", "H", "a", "b", "i", "t", "s">>
A2 == <<"J", "a", "m", "e", "s", " ", "C", "l", "e", "a", "r">>
P2 == <<"A", "v", "e", "r", "y">>
T3 == <<"M", "i", "n", "d", "s", "e", "t", ":", " ", "T", "h", "e", " ", "N", "e", "w", " ", "P", "s", "y", "c", "h", "o", "l", "o", "g", "y", " ", "o", "f", " ", "S", "u", "c", "c", "e", "s", "s">>
A3 == <<"C", "a", "r", "o", "l", " ", "S", ".", " ", "D", "w", "e", "c", "k">>
P3 == <<"R", "a", "n", "d", "o", "m", " ", "H", "o", "u", "s", "e">>
G3 == <<"P", "s", "y", "c", "h", "o", "l", "o", "g", "y">>

-----------------------------------------------------------------------------
(* JSON values and the Python builtins the handlers apply to them *)

JNull == [t |-> "null", s |-> <<>>, n |-> 0, o |-> <<>>]
JStr(chars) == [t |-> "str", s |-> chars, n |-> 0, o |-> <<>>]
JInt(i) == [t |-> "int", s |-> <<>>, n |-> i, o |-> <<>>]
JInf == [t |-> "inf", s |-> <<>>, n |-> 0, o |-> <<>>]   \* the float that 1e999 parses to
JObj(items) == [t |-> "obj", s |-> <<>>, n |-> 0, o |-> items]

\* bool(v)
Truthy(v) ==
    CASE v.t = "null" -> FALSE
      [] v.t = "str" -> v.s # <<>>
      [] v.t = "int" -> v.n # 0
      [] v.t = "inf" -> TRUE
      [] v.t = "obj" -> v.o # <<>>

\* dict operations on the items of an object
Keys(items) == {items[i][1] : i \in DOMAIN items}
DictGet(items, k) ==
    IF k \in Keys(items)
    THEN items[CHOOSE i \in DOMAIN items : items[i][1] = k][2]
    ELSE JNull
DictPop(items, k) == SelectSeq(items, LAMBDA p : p[1] # k)
DictSet(items, k, v) ==
    [i \in DOMAIN items |-> IF items[i][1] = k THEN <<k, v>> ELSE items[i]]
AsDict(items) == [k \in Keys(items) |-> DictGet(items, k)]

Whitespace == {" "}
Digits == {"0", "1", "2", "3", "4", "5", "6", "7", "8", "9"}
Letters == {"a", "b", "c", "d", "e", "f", "g", "h", "i", "j", "k", "l", "m",
            "n", "o", "p", "q", "r", "s", "t", "u", "v", "w", "x", "y", "z",
            "A", "B", "C", "D", "E", "F", "G", "H", "I", "J", "K", "L", "M",
            "N", "O", "P", "Q", "R", "S", "T", "U", "V", "W", "X", "Y", "Z"}
isdigit(c) == c \in Digits
isalpha(c) == c \in Letters

RECURSIVE lstrip(_)
lstrip(chars) ==
    IF chars # <<>> /\ Head(chars) \in Whitespace THEN lstrip(Tail(chars)) ELSE chars
RECURSIVE rstrip(_)
rstrip(chars) ==
    IF chars # <<>> /\ chars[Len(chars)] \in Whitespace
    THEN rstrip(SubSeq(chars, 1, Len(chars) - 1))
    ELSE chars
strip(chars) == rstrip(lstrip(chars))

DigitValue(c) ==
    CASE c = "0" -> 0 [] c = "1" -> 1 [] c = "2" -> 2 [] c = "3" -> 3 [] c = "4" -> 4
      [] c = "5" -> 5 [] c = "6" -> 6 [] c = "7" -> 7 [] c = "8" -> 8 [] c = "9" -> 9
RECURSIVE DecimalValue(_)
DecimalValue(chars) ==
    IF chars = <<>> THEN 0
    ELSE 10 * DecimalValue(SubSeq(chars, 1, Len(chars) - 1)) + DigitValue(chars[Len(chars)])

\* int(v): [exc |-> "" and val |-> the integer] or the exception raised.
\* A string is stripped, may carry one sign, and must then be all digits.
int(v) ==
    CASE v.t = "int" -> [exc |-> "", val |-> v.n]
      [] v.t = "str" ->
            LET body == strip(v.s)
                signed == body # <<>> /\ Head(body) \in {"+", "-"}
                digits == IF signed THEN Tail(body) ELSE body
            IN  IF digits # <<>> /\ \A i \in DOMAIN digits : isdigit(digits[i])
                THEN [exc |-> "",
                      val |-> IF signed /\ Head(body) = "-"
                              THEN 0 - DecimalValue(digits) ELSE DecimalValue(digits)]
                ELSE [exc |-> "ValueError", val |-> 0]
      [] v.t = "inf" -> [exc |-> "OverflowError", val |-> 0]
      [] v.t \in {"null", "obj"} -> [exc |-> "TypeError", val |-> 0]

-----------------------------------------------------------------------------
(* Responses *)

Json(status, key, text) ==
    [status |-> status, key |-> key, text |-> text, value |-> <<>>, challenge |-> FALSE]
JsonValue(status, key, text, value) ==
    [status |-> status, key |-> key, text |-> text, value |-> value, challenge |-> FALSE]
\* an exception no handler catches: Flask answers 500
Uncaught(exc) == Json(500, "exception", exc)
NoResponse == Json(0, "", "")

-----------------------------------------------------------------------------
(* Data model and the seeded catalog *)

BookFields == {"id", "title", "author", "publisher", "year", "genre", "stock", "owner"}

Book(id, title, author, publisher, year, genre, stock, owner) ==
    [id |-> id, title |-> title, author |-> author, publisher |-> publisher,
     year |-> year, genre |-> genre, stock |-> stock, owner |-> owner]

SeedBooks ==
    (JStr(S_BK001) :> Book(JStr(S_BK001), JStr(T1), JStr(A1), JStr(P1), JInt(2016),
                           JStr(G1), JInt(5), JStr(S_admin)))
    @@ (JStr(S_BK002) :> Book(JStr(S_BK002), JStr(T2), JStr(A2), JStr(P2), JInt(2018),
                              JStr(G1), JInt(8), JStr(S_admin)))
    @@ (JStr(S_BK003) :> Book(JStr(S_BK003), JStr(T3), JStr(A3), JStr(P3), JInt(2006),
                              JStr(G3), JInt(4), JStr(S_admin)))

-----------------------------------------------------------------------------
(* User persistence *)

\* werkzeug's salted one-way hash: the digest determines the salt and the
\* password it was made from, and nothing else produces it.
generate_password_hash(password, salt) ==
    [salt |-> salt, digest |-> <<salt, password>>]
check_password_hash(pwhash, password) ==
    pwhash.digest = <<pwhash.salt, password>>
\* a password_hash value of users.json that no password matches
GarbageHash == [salt |-> 0, digest |-> <<>>]

\* the salts generate_password_hash draws from
Salts == {1, 2}

\* users.json: kind is "missing", "unreadable" (open raises OSError),
\* "notjson" (json.load raises JSONDecodeError), "json_other" (valid JSON that
\* is not an object) or "json_dict"; data maps each key of the object to
\* [is_dict, has_hash, password_hash].
File(kind, data) == [kind |-> kind, data |-> data]
FileEntry(is_dict, has_hash, pwhash) ==
    [is_dict |-> is_dict, has_hash |-> has_hash, password_hash |-> pwhash]

load_users(file) ==
    IF file.kind = "missing" THEN <<>>
    ELSE IF file.kind \in {"unreadable", "notjson"} THEN <<>>
    ELSE IF file.kind = "json_dict"
         THEN [username \in {u \in DOMAIN file.data :
                                file.data[u].is_dict /\ file.data[u].has_hash}
                  |-> [password_hash |-> file.data[username].password_hash]]
         ELSE <<>>

\* what json.load (line 77) raises past the except clause of line 95, which names
\* OSError and json.JSONDecodeError only: f.read() raises UnicodeDecodeError
\* on bytes that are not text in the file's encoding, the decoder raises
\* RecursionError on a document nested deeper than the interpreter's limit
load_users_raises(file) ==
    IF file.kind = "undecodable" THEN "UnicodeDecodeError"
    ELSE IF file.kind = "too_deep" THEN "RecursionError"
    ELSE ""

\* outcome: "ok", or "oserror" when open raises OSError and the file is as it was
SaveOutcomes == {"ok", "oserror"}

\* save_users opening the file for appending: a second document after the
\* first leaves content json.load refuses
save_users_append(usrs, file, outcome) ==
    CASE outcome = "ok" ->
             IF file.kind = "missing"
             THEN File("json_dict",
                       [u \in DOMAIN usrs |-> FileEntry(TRUE, TRUE, usrs[u].password_hash)])
             ELSE File("notjson", <<>>)
      [] outcome = "oserror" -> file

\* json.dump of the whole mapping (lines 105-106), or nothing on OSError
save_users(usrs, file, outcome) ==
    CASE outcome = "ok" ->
            File("json_dict",
                 [u \in DOMAIN usrs |-> FileEntry(TRUE, TRUE, usrs[u].password_hash)])
      [] outcome = "oserror" -> file

\* module startup, lines 112-120
Startup(file, salt, outcome) ==
    LET loaded == load_users(file)
    IN  IF loaded = <<>>
        THEN LET u == S_admin :> [password_hash |-> generate_password_hash(S_admin123, salt)]
             IN  [users |-> u, users_file |-> save_users(u, file, outcome)]
        ELSE [users |-> loaded, users_file |-> file]

\* users.json as a first run finds it, as an earlier run that bootstrapped
\* admin and registered carol left it, and as written by hand
InitialFiles ==
    { File("missing", <<>>),
      File("json_dict",
           (S_admin :> FileEntry(TRUE, TRUE, generate_password_hash(S_admin123, 1)))
           @@ (S_carol :> FileEntry(TRUE, TRUE, generate_password_hash(S_Passw0rd, 1)))),
      File("json_dict",
           (S_carol :> FileEntry(TRUE, TRUE, generate_password_hash(S_Passw0rd, 1)))
           @@ (<<"a", "b">> :> FileEntry(TRUE, TRUE, generate_password_hash(S_Passw0rd, 1)))
           @@ (S_mallory :> FileEntry(TRUE, FALSE, GarbageHash))) }

-----------------------------------------------------------------------------
(* Authentication helpers *)

\* validate_password content with a letter or a digit alone
validate_password_either(password) ==
    IF Len(password) < 8
    THEN "Password must be at least 8 characters long."
    ELSE IF ~ ((\E i \in DOMAIN password : isdigit(password[i]))
               \/ (\E i \in DOMAIN password : isalpha(password[i])))
         THEN "Password must contain at least one letter and one number."
         ELSE ""

\* validate_password: "" when the password is accepted, else the message
validate_password(password) ==
    IF Len(password) < 8
    THEN "Password must be at least 8 characters long."
    ELSE IF ~ ((\E i \in DOMAIN password : isdigit(password[i]))
               /\ (\E i \in DOMAIN password : isalpha(password[i])))
         THEN "Password must contain at least one letter and one number."
         ELSE ""

\* request.authorization: present is FALSE when the request has no Basic
\* Authorization header
Authorization(username, password) ==
    [present |-> TRUE, username |-> username, password |-> password]
NoAuthorization == [present |-> FALSE, username |-> <<>>, password |-> <<>>]

Challenge(text) ==
    [status |-> 401, key |-> "detail", text |-> text, value |-> <<>>, challenge |-> TRUE]

\* require_auth without the password comparison
require_auth_unchecked(auth, usrs) ==
    IF ~ auth.present \/ auth.username = <<>> \/ auth.password = <<>>
    THEN [ok |-> FALSE, user |-> <<>>, response |-> Challenge("Authentication required")]
    ELSE IF auth.username \notin DOMAIN usrs
    THEN [ok |-> FALSE, user |-> <<>>, response |-> Challenge("Invalid username or password")]
    ELSE IF FALSE
    THEN [ok |-> FALSE, user |-> <<>>, response |-> Challenge("Invalid username or password")]
    ELSE [ok |-> TRUE, user |-> auth.username, response |-> NoResponse]

\* require_auth telling an unknown username from a wrong password
require_auth_unknown_user(auth, usrs) ==
    IF ~ auth.present \/ auth.username = <<>> \/ auth.password = <<>>
    THEN [ok |-> FALSE, user |-> <<>>, response |-> Challenge("Authentication required")]
    ELSE IF auth.username \notin DOMAIN usrs
    THEN [ok |-> FALSE, user |-> <<>>, response |-> Challenge("Unknown username")]
    ELSE IF ~ check_password_hash(usrs[auth.username].password_hash, auth.password)
    THEN [ok |-> FALSE, user |-> <<>>, response |-> Challenge("Invalid username or password")]
    ELSE [ok |-> TRUE, user |-> auth.username, response |-> NoResponse]

\* require_auth calling func when the request has no Authorization header
require_auth_anonymous(auth, usrs) ==
    IF ~ auth.present
    THEN [ok |-> TRUE, user |-> <<>>, response |-> NoResponse]
    ELSE IF auth.username = <<>> \/ auth.password = <<>>
    THEN [ok |-> FALSE, user |-> <<>>, response |-> Challenge("Authentication required")]
    ELSE IF auth.username \notin DOMAIN usrs
    THEN [ok |-> FALSE, user |-> <<>>, response |-> Challenge("Invalid username or password")]
    ELSE IF ~ check_password_hash(usrs[auth.username].password_hash, auth.password)
    THEN [ok |-> FALSE, user |-> <<>>, response |-> Challenge("Invalid username or password")]
    ELSE [ok |-> TRUE, user |-> auth.username, response |-> NoResponse]

\* the decorator's wrapper up to the call of func: ok is TRUE when func is called
\* with g.current_user = user, else response is what the wrapper returns
require_auth(auth, usrs) ==
    IF ~ auth.present \/ auth.username = <<>> \/ auth.password = <<>>
    THEN [ok |-> FALSE, user |-> <<>>, response |-> Challenge("Authentication required")]
    ELSE IF auth.username \notin DOMAIN usrs
    THEN [ok |-> FALSE, user |-> <<>>, response |-> Challenge("Invalid username or password")]
    ELSE IF ~ check_password_hash(usrs[auth.username].password_hash, auth.password)
    THEN [ok |-> FALSE, user |-> <<>>, response |-> Challenge("Invalid username or password")]
    ELSE [ok |-> TRUE, user |-> auth.username, response |-> NoResponse]

-----------------------------------------------------------------------------
(* Helpers for books *)

\* asdict(book) reads every dataclass field of the instance
book_to_dict(book) ==
    IF BookFields \subseteq DOMAIN book
    THEN [exc |-> "", val |-> [f \in BookFields |-> book[f]]]
    ELSE [exc |-> "AttributeError", val |-> <<>>]

get_book_or_404(book_id, bks) ==
    IF JStr(book_id) \notin DOMAIN bks
    THEN [found |-> FALSE, book |-> <<>>, response |-> Json(404, "error", "Book not found")]
    ELSE [found |-> TRUE, book |-> bks[JStr(book_id)], response |-> NoResponse]

\* allowed, or the response to return, or the exception of reading book.owner
ensure_owner(book, current_user) ==
    IF current_user = <<>>
    THEN [allowed |-> FALSE, exc |-> "", response |-> Json(401, "error", "Authentication required")]
    ELSE IF "owner" \notin DOMAIN book
    THEN [allowed |-> FALSE, exc |-> "AttributeError", response |-> Uncaught("AttributeError")]
    ELSE IF book["owner"] # JStr(current_user)
    THEN [allowed |-> FALSE, exc |-> "",
          response |-> Json(403, "error", "Forbidden: not the owner of this resource")]
    ELSE [allowed |-> TRUE, exc |-> "", response |-> NoResponse]

\* request.get_json() or {}
get_json_or_empty(body) == IF Truthy(body) THEN body ELSE JObj(<<>>)

-----------------------------------------------------------------------------
(* Registration *)

\* register without the uniqueness check of line 245
register_overwrite(body, usrs, salt) ==
    LET data == get_json_or_empty(body)
        Fail(resp) == [users |-> usrs, response |-> resp, save |-> FALSE]
    IN  IF data.t # "obj" THEN Fail(Uncaught("AttributeError"))
        ELSE
        LET rawname == DictGet(data.o, "username")
            rawpw == DictGet(data.o, "password")
            name == IF Truthy(rawname) THEN rawname ELSE JStr(<<>>)
            password == IF Truthy(rawpw) THEN rawpw ELSE JStr(<<>>)
        IN  IF name.t # "str" THEN Fail(Uncaught("AttributeError"))
            ELSE
            LET username == strip(name.s)
            IN  IF username = <<>> \/ ~ Truthy(password)
                THEN Fail(Json(400, "error", "username and password are required"))
                ELSE IF Len(username) < 3
                THEN Fail(Json(400, "error", "username must be at least 3 characters"))
                ELSE IF password.t # "str" THEN Fail(Uncaught("TypeError"))
                ELSE IF validate_password(password.s) # ""
                THEN Fail(Json(400, "error", validate_password(password.s)))
                ELSE [users |-> (username :> [password_hash |->
                                     generate_password_hash(password.s, salt)]) @@ usrs,
                      response |-> Json(201, "message", "User registered successfully"),
                      save |-> TRUE]

\* register up to save_users: the users mapping after the request, the
\* response, and whether save_users is called
register(body, usrs, salt) ==
    LET data == get_json_or_empty(body)
        Fail(resp) == [users |-> usrs, response |-> resp, save |-> FALSE]
    IN  IF data.t # "obj" THEN Fail(Uncaught("AttributeError"))
        ELSE
        LET rawname == DictGet(data.o, "username")
            rawpw == DictGet(data.o, "password")
            name == IF Truthy(rawname) THEN rawname ELSE JStr(<<>>)
            password == IF Truthy(rawpw) THEN rawpw ELSE JStr(<<>>)
        IN  IF name.t # "str" THEN Fail(Uncaught("AttributeError"))
            ELSE
            LET username == strip(name.s)
            IN  IF username = <<>> \/ ~ Truthy(password)
                THEN Fail(Json(400, "error", "username and password are required"))
                ELSE IF Len(username) < 3
                THEN Fail(Json(400, "error", "username must be at least 3 characters"))
                ELSE IF username \in DOMAIN usrs
                THEN Fail(Json(400, "error", "username already exists"))
                ELSE IF password.t # "str" THEN Fail(Uncaught("TypeError"))
                ELSE IF validate_password(password.s) # ""
                THEN Fail(Json(400, "error", validate_password(password.s)))
                ELSE [users |-> (username :> [password_hash |->
                                     generate_password_hash(password.s, salt)]) @@ usrs,
                      response |-> Json(201, "message", "User registered successfully"),
                      save |-> TRUE]

-----------------------------------------------------------------------------
(* Book handlers: the function bodies under the decorator *)

list_books(bks) ==
    IF \A k \in DOMAIN bks : book_to_dict(bks[k]).exc = ""
    THEN JsonValue(200, "books", "", [k \in DOMAIN bks |-> book_to_dict(bks[k]).val])
    ELSE Uncaught("AttributeError")

get_book(book_id, bks) ==
    LET got == get_book_or_404(book_id, bks)
    IN  IF ~ got.found THEN got.response
        ELSE IF book_to_dict(got.book).exc # "" THEN Uncaught(book_to_dict(got.book).exc)
        ELSE JsonValue(200, "book", "", book_to_dict(got.book).val)

RequiredFields == {"title", "author", "publisher", "year", "genre", "stock"}

\* create_book taking the owner from the body when it names one
create_book_owner_from_body(body, current_user, bks) ==
    LET data == get_json_or_empty(body)
        Fail(resp) == [books |-> bks, response |-> resp]
    IN  IF data.t # "obj" THEN Fail(Uncaught("AttributeError"))
        ELSE
        LET book_id == DictGet(data.o, "id")
        IN  IF ~ Truthy(book_id) THEN Fail(Json(400, "error", "Field 'id' is required"))
            ELSE IF book_id.t = "obj" THEN Fail(Uncaught("TypeError"))
            ELSE IF book_id \in DOMAIN bks
            THEN Fail(Json(400, "error", "Book with this id already exists"))
            ELSE IF ~ (RequiredFields \subseteq Keys(data.o))
            THEN Fail(Json(400, "error", "Missing fields"))
            ELSE
            LET year == int(DictGet(data.o, "year"))
                stock == int(DictGet(data.o, "stock"))
                exc == IF year.exc # "" THEN year.exc ELSE stock.exc
            IN  IF exc \in {"TypeError", "ValueError"}
                THEN Fail(Json(400, "error", "year and stock must be integers"))
                ELSE IF exc # "" THEN Fail(Uncaught(exc))
                ELSE
                LET new_book == Book(book_id, DictGet(data.o, "title"),
                                     DictGet(data.o, "author"), DictGet(data.o, "publisher"),
                                     JInt(year.val), DictGet(data.o, "genre"),
                                     JInt(stock.val),
                                     IF "owner" \in Keys(data.o)
                                     THEN DictGet(data.o, "owner") ELSE JStr(current_user))
                IN  [books |-> (book_id :> new_book) @@ bks,
                     response |-> JsonValue(201, "message", "Book created",
                                            book_to_dict(new_book).val)]

create_book(body, current_user, bks) ==
    LET data == get_json_or_empty(body)
        Fail(resp) == [books |-> bks, response |-> resp]
    IN  IF data.t # "obj" THEN Fail(Uncaught("AttributeError"))
        ELSE
        LET book_id == DictGet(data.o, "id")
        IN  IF ~ Truthy(book_id) THEN Fail(Json(400, "error", "Field 'id' is required"))
            ELSE IF book_id.t = "obj" THEN Fail(Uncaught("TypeError"))
            ELSE IF book_id \in DOMAIN bks
            THEN Fail(Json(400, "error", "Book with this id already exists"))
            ELSE IF ~ (RequiredFields \subseteq Keys(data.o))
            THEN Fail(Json(400, "error", "Missing fields"))
            ELSE
            LET year == int(DictGet(data.o, "year"))
                stock == int(DictGet(data.o, "stock"))
                exc == IF year.exc # "" THEN year.exc ELSE stock.exc
            IN  IF exc \in {"TypeError", "ValueError"}
                THEN Fail(Json(400, "error", "year and stock must be integers"))
                ELSE IF exc # "" THEN Fail(Uncaught(exc))
                ELSE
                LET new_book == Book(book_id, DictGet(data.o, "title"),
                                     DictGet(data.o, "author"), DictGet(data.o, "publisher"),
                                     JInt(year.val), DictGet(data.o, "genre"),
                                     JInt(stock.val), JStr(current_user))
                IN  [books |-> (book_id :> new_book) @@ bks,
                     response |-> JsonValue(201, "message", "Book created",
                                            book_to_dict(new_book).val)]

\* attributes a Book instance has through its class whatever its own
\* attribute dict holds (those the modelled payloads name)
ClassAttributes == {"__dict__", "__class__", "__doc__"}
hasattr(book, field) == field \in DOMAIN book \/ field \in ClassAttributes

\* setattr(book, field, value): the attribute dict afterwards, or the exception
setattr(book, field, value) ==
    CASE field = "__dict__" ->
            IF value.t = "obj" THEN [exc |-> "", book |-> AsDict(value.o)]
            ELSE [exc |-> "TypeError", book |-> book]
      [] field = "__class__" -> [exc |-> "TypeError", book |-> book]
      [] OTHER -> [exc |-> "", book |-> (field :> value) @@ book]

\* the loop of lines 378-380 over data.items(), stopping at an exception
RECURSIVE apply_fields(_, _)
apply_fields(book, items) ==
    IF items = <<>> THEN [exc |-> "", book |-> book]
    ELSE LET field == Head(items)[1]
             value == Head(items)[2]
         IN  IF ~ hasattr(book, field) THEN apply_fields(book, Tail(items))
             ELSE LET set == setattr(book, field, value)
                  IN  IF set.exc # "" THEN set
                      ELSE apply_fields(set.book, Tail(items))

update_book(book_id, body, current_user, bks) ==
    LET got == get_book_or_404(book_id, bks)
        Fail(resp) == [books |-> bks, response |-> resp]
    IN  IF ~ got.found THEN Fail(got.response)
        ELSE IF ~ ensure_owner(got.book, current_user).allowed
        THEN Fail(ensure_owner(got.book, current_user).response)
        ELSE
        LET data == get_json_or_empty(body)
        IN  IF data.t # "obj" THEN Fail(Uncaught("AttributeError"))
            ELSE
            LET popped == DictPop(DictPop(data.o, "owner"), "id")
                year == int(DictGet(popped, "year"))
                with_year == IF "year" \in Keys(popped) /\ year.exc = ""
                             THEN DictSet(popped, "year", JInt(year.val)) ELSE popped
                stock == int(DictGet(with_year, "stock"))
                with_stock == IF "stock" \in Keys(with_year) /\ stock.exc = ""
                              THEN DictSet(with_year, "stock", JInt(stock.val)) ELSE with_year
            IN  IF "year" \in Keys(popped) /\ year.exc \in {"TypeError", "ValueError"}
                THEN Fail(Json(400, "error", "year must be an integer"))
                ELSE IF "year" \in Keys(popped) /\ year.exc # "" THEN Fail(Uncaught(year.exc))
                ELSE IF "stock" \in Keys(with_year) /\ stock.exc \in {"TypeError", "ValueError"}
                THEN Fail(Json(400, "error", "stock must be an integer"))
                ELSE IF "stock" \in Keys(with_year) /\ stock.exc # "" THEN Fail(Uncaught(stock.exc))
                ELSE
                LET applied == apply_fields(got.book, with_stock)
                    stored == [bks EXCEPT ![JStr(book_id)] = applied.book]
                IN  IF applied.exc # ""
                    THEN [books |-> stored, response |-> Uncaught(applied.exc)]
                    ELSE IF book_to_dict(applied.book).exc # ""
                    THEN [books |-> stored,
                          response |-> Uncaught(book_to_dict(applied.book).exc)]
                    ELSE [books |-> stored,
                          response |-> JsonValue(200, "message", "Book updated",
                                                 book_to_dict(applied.book).val)]

\* delete_book answering 200 without removing the record
delete_book_keeps(book_id, current_user, bks) ==
    LET got == get_book_or_404(book_id, bks)
    IN  IF ~ got.found THEN [books |-> bks, response |-> got.response]
        ELSE IF ~ ensure_owner(got.book, current_user).allowed
        THEN [books |-> bks, response |-> ensure_owner(got.book, current_user).response]
        ELSE [books |-> bks,
              response |-> Json(200, "message", "Book deleted")]

delete_book(book_id, current_user, bks) ==
    LET got == get_book_or_404(book_id, bks)
    IN  IF ~ got.found THEN [books |-> bks, response |-> got.response]
        ELSE IF ~ ensure_owner(got.book, current_user).allowed
        THEN [books |-> bks, response |-> ensure_owner(got.book, current_user).response]
        ELSE [books |-> [k \in DOMAIN bks \ {JStr(book_id)} |-> bks[k]],
              response |-> Json(200, "message", "Book deleted")]

-----------------------------------------------------------------------------
(* Requests *)

Request(method, path, book_id, auth, body) ==
    [method |-> method, path |-> path, book_id |-> book_id,
     authorization |-> auth, json |-> body]
NoRequest == Request("", "", <<>>, NoAuthorization, JNull)

S_Passw0rD == [S_Passw0rd EXCEPT ![8] = "D"]   \* one character of "Passw0rd" changed
S_ab == <<"a", "b">>
S_carol_padded == <<" ">> \o S_carol \o <<" ">>
S_X == <<"X">>
S_Y == <<"Y">>
S_Z == <<"Z">>
S_G == <<"G">>
S_2020 == <<"2", "0", "2", "0">>
S_abc == <<"a", "b", "c">>

\* credentials of the accounts a run can hold, and credentials no run accepts
AccountCredentials ==
    { Authorization(S_admin, S_admin123),
      Authorization(S_carol, S_Passw0rd) }
OtherCredentials ==
    { NoAuthorization,
      Authorization(S_carol, S_Passw0rD),
      Authorization(S_carol, <<>>),
      Authorization(S_mallory, S_Passw0rd) }
Credentials == AccountCredentials \cup OtherCredentials

RegisterBody(username, password) ==
    JObj(<< <<"username", JStr(username)>>, <<"password", JStr(password)>> >>)
RegisterBodies ==
    { RegisterBody(S_carol, S_Passw0rd), RegisterBody(S_carol_padded, S_Passw0rd),
      RegisterBody(S_carol, S_short1), RegisterBody(S_carol, <<>>),
      RegisterBody(S_admin, S_admin123), RegisterBody(S_admin, S_short1),
      RegisterBody(S_admin, <<>>), RegisterBody(S_ab, S_Passw0rd),
      JObj(<< <<"username", JStr(S_carol)>> >>), JNull,
      JInt(5),
      JObj(<< <<"username", JInt(5)>>, <<"password", JStr(S_Passw0rd)>> >>) }

UrlBookIds == {S_BK001, S_BK100}

FullBook(id, year, stock) ==
    << <<"id", id>>, <<"title", JStr(S_X)>>, <<"author", JStr(S_Y)>>,
       <<"publisher", JStr(S_Z)>>, <<"year", year>>, <<"genre", JStr(S_G)>>,
       <<"stock", stock>> >>

CreateBodies ==
    { JObj(FullBook(JStr(S_BK100), JInt(2020), JInt(3))),
      JObj(FullBook(JStr(S_BK100), JInt(2020), JInt(3)) \o << <<"owner", JStr(S_mallory)>> >>),
      JObj(FullBook(JStr(S_BK100), JStr(S_2020), JInt(3))),
      JObj(FullBook(JStr(S_BK100), JInt(2020), JStr(S_abc))),
      JObj(FullBook(JStr(S_BK100), JNull, JInt(3))),
      JObj(FullBook(JStr(S_BK100), JInf, JInt(3))),
      JObj(FullBook(JStr(S_BK001), JInt(2020), JInt(3))),
      JObj(FullBook(JStr(<<>>), JInt(2020), JInt(3))),
      JObj(Tail(FullBook(JStr(S_BK100), JInt(2020), JInt(3)))),
      JObj(DictPop(FullBook(JStr(S_BK100), JInt(2020), JInt(3)), "title")),
      JObj(DictPop(FullBook(JStr(S_BK001), JInt(2020), JInt(3)), "stock")),
      JObj(FullBook(JObj(<< <<"a", JInt(1)>> >>), JInt(2020), JInt(3))) }

UpdateBodies ==
    { JObj(<< <<"stock", JInt(10)>> >>),
      JObj(<< <<"title", JStr(S_X)>>, <<"year", JStr(S_2020)>> >>),
      JObj(<< <<"title", JStr(S_X)>>, <<"year", JInt(2020)>>, <<"stock", JStr(S_abc)>> >>),
      JObj(<< <<"stock", JInt(10)>>, <<"year", JNull>> >>),
      JObj(<< <<"genre", JStr(S_G)>>, <<"year", JInf>> >>),
      JObj(<< <<"owner", JStr(S_mallory)>>, <<"id", JStr(S_BK404)>>, <<"author", JStr(S_Y)>> >>),
      JObj(<< <<"foo", JInt(1)>>, <<"publisher", JStr(S_Z)>> >>),
      JObj(<< <<"__dict__", JObj(<< <<"owner", JStr(S_mallory)>> >>)>> >>),
      JObj(<< <<"__dict__", JObj(<< <<"title", JStr(S_X)>> >>)>> >>),
      JObj(<< <<"__dict__", JObj(FullBook(JStr(S_BK404), JInt(2020), JInt(3))
                                   \o << <<"owner", JStr(S_carol)>> >>)>> >>),
      JObj(<< <<"title", JStr(S_X)>>, <<"__class__", JInt(1)>> >>),
      JNull }

\* a request whose credentials are rejected carries one body only
CreateRequests ==
    (AccountCredentials \X CreateBodies)
    \cup (OtherCredentials \X {JObj(FullBook(JStr(S_BK100), JInt(2020), JInt(3)))})
UpdateRequests ==
    (AccountCredentials \X UrlBookIds \X UpdateBodies)
    \cup (OtherCredentials \X {S_BK001} \X {JObj(<< <<"stock", JInt(10)>> >>)})
DeleteRequests ==
    (AccountCredentials \X UrlBookIds) \cup (OtherCredentials \X {S_BK001})
ReadCredentials == {NoAuthorization, Authorization(S_carol, S_Passw0rd)}

-----------------------------------------------------------------------------
(* Actions: one per route *)

Init ==
    \E file \in InitialFiles, salt \in Salts, outcome \in SaveOutcomes :
        /\ books = SeedBooks
        /\ users = Startup(file, salt, outcome).users
        /\ users_file = Startup(file, salt, outcome).users_file
        /\ registered = IF load_users(file) = <<>> THEN S_admin :> S_admin123 ELSE <<>>
        /\ request = NoRequest
        /\ response = NoResponse
        /\ g_current_user = <<>>
        /\ nreq = 0
        /\ save_result = IF load_users(file) = <<>> THEN outcome ELSE "none"
        /\ phase = "serving"
        /\ threads = <<>>

\* salt and outcome are drawn only by a registration that uses them
Register(body, salt, outcome) ==
    /\ phase = "serving"
    /\ nreq < MaxRequests
    /\ LET r == register(body, users, salt)
       IN  /\ r.save \/ (salt = 1 /\ outcome = "ok")
           /\ users' = r.users
           /\ users_file' = IF r.save THEN save_users(r.users, users_file, outcome)
                            ELSE users_file
           /\ response' = r.response
           /\ registered' = IF r.save
                             THEN [u \in DOMAIN r.users \ DOMAIN users |->
                                      DictGet(body.o, "password").s] @@ registered
                             ELSE registered
    /\ request' = Request("POST", "/register", <<>>, NoAuthorization, body)
    /\ g_current_user' = <<>>
    /\ nreq' = nreq + 1
    /\ save_result' = IF register(body, users, salt).save THEN outcome ELSE "none"
    /\ UNCHANGED <<books, phase, threads>>

Me(auth) ==
    /\ phase = "serving"
    /\ nreq < MaxRequests
    /\ LET a == require_auth(auth, users)
       IN  /\ g_current_user' = a.user
           /\ response' = IF a.ok THEN JsonValue(200, "username", "", a.user)
                          ELSE a.response
    /\ request' = Request("GET", "/me", <<>>, auth, JNull)
    /\ nreq' = nreq + 1
    /\ save_result' = "none"
    /\ UNCHANGED <<books, users, users_file, registered, phase, threads>>

ListBooks(auth) ==
    /\ phase = "serving"
    /\ nreq < MaxRequests
    /\ response' = list_books(books)
    /\ request' = Request("GET", "/books", <<>>, auth, JNull)
    /\ g_current_user' = <<>>
    /\ nreq' = nreq + 1
    /\ save_result' = "none"
    /\ UNCHANGED <<books, users, users_file, registered, phase, threads>>

\* get_book behind the require_auth decorator
GetBook_protected(auth, book_id) ==
    /\ phase = "serving"
    /\ nreq < MaxRequests
    /\ LET a == require_auth(auth, users)
       IN  /\ g_current_user' = a.user
           /\ response' = IF a.ok THEN get_book(book_id, books) ELSE a.response
    /\ request' = Request("GET", "/books/<id>", book_id, auth, JNull)
    /\ nreq' = nreq + 1
    /\ save_result' = "none"
    /\ UNCHANGED <<books, users, users_file, registered, phase, threads>>

GetBook(auth, book_id) ==
    /\ phase = "serving"
    /\ nreq < MaxRequests
    /\ response' = get_book(book_id, books)
    /\ request' = Request("GET", "/books/<id>", book_id, auth, JNull)
    /\ g_current_user' = <<>>
    /\ nreq' = nreq + 1
    /\ save_result' = "none"
    /\ UNCHANGED <<books, users, users_file, registered, phase, threads>>

CreateBook(auth, body) ==
    /\ phase = "serving"
    /\ nreq < MaxRequests
    /\ LET a == require_auth(auth, users)
           r == create_book(body, a.user, books)
       IN  /\ g_current_user' = a.user
           /\ response' = IF a.ok THEN r.response ELSE a.response
           /\ books' = IF a.ok THEN r.books ELSE books
    /\ request' = Request("POST", "/books", <<>>, auth, body)
    /\ nreq' = nreq + 1
    /\ save_result' = "none"
    /\ UNCHANGED <<users, users_file, registered, phase, threads>>

UpdateBook(auth, book_id, body) ==
    /\ phase = "serving"
    /\ nreq < MaxRequests
    /\ LET a == require_auth(auth, users)
           r == update_book(book_id, body, a.user, books)
       IN  /\ g_current_user' = a.user
           /\ response' = IF a.ok THEN r.response ELSE a.response
           /\ books' = IF a.ok THEN r.books ELSE books
    /\ request' = Request("PUT", "/books/<id>", book_id, auth, body)
    /\ nreq' = nreq + 1
    /\ save_result' = "none"
    /\ UNCHANGED <<users, users_file, registered, phase, threads>>

DeleteBook(auth, book_id) ==
    /\ phase = "serving"
    /\ nreq < MaxRequests
    /\ LET a == require_auth(auth, users)
           r == delete_book(book_id, a.user, books)
       IN  /\ g_current_user' = a.user
           /\ response' = IF a.ok THEN r.response ELSE a.response
           /\ books' = IF a.ok THEN r.books ELSE books
    /\ request' = Request("DELETE", "/books/<id>", book_id, auth, JNull)
    /\ nreq' = nreq + 1
    /\ save_result' = "none"
    /\ UNCHANGED <<users, users_file, registered, phase, threads>>

Next ==
    \/ \E body \in RegisterBodies, salt \in Salts, outcome \in SaveOutcomes :
           Register(body, salt, outcome)
    \/ \E auth \in Credentials : Me(auth)
    \/ \E auth \in ReadCredentials : ListBooks(auth)
    \/ \E auth \in ReadCredentials, book_id \in UrlBookIds : GetBook(auth, book_id)
    \/ \E r \in CreateRequests : CreateBook(r[1], r[2])
    \/ \E r \in UpdateRequests : UpdateBook(r[1], r[2], r[3])
    \/ \E r \in DeleteRequests : DeleteBook(r[1], r[2])

Spec == Init /\ [][Next]_vars

-----------------------------------------------------------------------------
(* The password policy on its inputs: one registration of a new username    *)
(* with each password of the lengths around the minimum, over a letter, a   *)
(* digit and a character that is neither.                                   *)

MaxPasswordLen == 8
S_alllettersnodigit ==
    <<"a", "l", "l", "l", "e", "t", "t", "e", "r", "s", "n", "o", "d", "i", "g", "i", "t">>
S_alllower1 == <<"a", "l", "l", "l", "o", "w", "e", "r", "1">>
S_GOOD1234 == <<"G", "O", "O", "D", "1", "2", "3", "4">>
PolicyAlphabet == {"a", "1", "-"}
PolicyPasswords ==
    UNION { [1..n -> PolicyAlphabet] : n \in (MaxPasswordLen - 2)..MaxPasswordLen }
    \cup {S_short1, S_alllettersnodigit, S_alllower1, S_GOOD1234}

RegisterWithPassword(password) ==
    Register(RegisterBody(S_mallory, password), 1, "ok")

\* the first request of a run
NextPolicy ==
    /\ nreq = 0
    /\ \E password \in PolicyPasswords : RegisterWithPassword(password)

SpecPolicy == Init /\ [][NextPolicy]_vars

-----------------------------------------------------------------------------
(* Handlers running at the same time.  app.run (line 406) serves each       *)
(* request in a thread of its own; no handler takes a lock, so a thread can *)
(* be preempted between any two lines.  A create is three steps: the        *)
(* decorator, lines 310-328 with the test of line 316, the assignment of    *)
(* line 341.  A registration is three steps: lines 235-252 with the test of *)
(* line 245, the assignment of line 253, save_users of line 254.  flask.g   *)
(* is local to the request, so each thread has its own current user.        *)

ThreadIds == {1, 2}
ThreadRequests ==
    { [op |-> "create", auth |-> Authorization(S_admin, S_admin123),
       body |-> JObj(FullBook(JStr(S_BK100), JInt(2020), JInt(3)))],
      [op |-> "create", auth |-> Authorization(S_carol, S_Passw0rd),
       body |-> JObj(FullBook(JStr(S_BK100), JInt(2020), JInt(3)))],
      [op |-> "create", auth |-> Authorization(S_carol, S_Passw0rd),
       body |-> JObj(FullBook(JStr(S_BK001), JInt(2020), JInt(3)))],
      [op |-> "register", auth |-> NoAuthorization,
       body |-> RegisterBody(S_mallory, S_Passw0rd)],
      [op |-> "register", auth |-> NoAuthorization,
       body |-> RegisterBody(S_mallory, S_admin123)],
      [op |-> "register", auth |-> NoAuthorization,
       body |-> RegisterBody(S_mallory, S_short1)] }
Thread(req) ==
    [op |-> req.op, auth |-> req.auth, body |-> req.body,
     pc |-> IF req.op = "create" THEN "require_auth" ELSE "validate",
     current_user |-> <<>>, pending |-> <<>>, response |-> NoResponse]

InitConcurrent ==
    \E file \in InitialFiles, reqs \in [ThreadIds -> ThreadRequests] :
        /\ books = SeedBooks
        /\ users = Startup(file, 1, "ok").users
        /\ users_file = Startup(file, 1, "ok").users_file
        /\ registered = IF load_users(file) = <<>> THEN S_admin :> S_admin123 ELSE <<>>
        /\ request = NoRequest
        /\ response = NoResponse
        /\ g_current_user = <<>>
        /\ nreq = 0
        /\ save_result = IF load_users(file) = <<>> THEN "ok" ELSE "none"
        /\ phase = "serving"
        /\ threads = [t \in ThreadIds |-> Thread(reqs[t])]

\* lines 152-181 for the thread's request
ThreadRequireAuth(t) ==
    /\ threads[t].pc = "require_auth"
    /\ LET a == require_auth(threads[t].auth, users)
       IN  threads' = [threads EXCEPT ![t] =
                          IF a.ok THEN [@ EXCEPT !.pc = "validate", !.current_user = a.user]
                          ELSE [@ EXCEPT !.pc = "done", !.response = a.response]]
    /\ UNCHANGED <<books, users, users_file, request, response, g_current_user,
                   registered, nreq, save_result, phase>>

\* lines 310-339 of create_book: every check, the id test of line 316 among
\* them, against the catalog as it is now; the Book is built, not yet stored
ThreadCreateValidate(t) ==
    /\ threads[t].op = "create"
    /\ threads[t].pc = "validate"
    /\ LET r == create_book(threads[t].body, threads[t].current_user, books)
       IN  threads' = [threads EXCEPT ![t] =
                          IF r.response.status = 201
                          THEN [@ EXCEPT !.pc = "insert",
                                         !.pending = r.books[DictGet(threads[t].body.o, "id")]]
                          ELSE [@ EXCEPT !.pc = "done", !.response = r.response]]
    /\ UNCHANGED <<books, users, users_file, request, response, g_current_user,
                   registered, nreq, save_result, phase>>

\* line 341: books[book_id] = new_book, then the 201 of line 342
ThreadCreateInsert(t) ==
    /\ threads[t].op = "create"
    /\ threads[t].pc = "insert"
    /\ books' = (DictGet(threads[t].body.o, "id") :> threads[t].pending) @@ books
    /\ threads' = [threads EXCEPT ![t] =
                      [@ EXCEPT !.pc = "done",
                                !.response = JsonValue(201, "message", "Book created",
                                                       book_to_dict(threads[t].pending).val)]]
    /\ UNCHANGED <<users, users_file, request, response, g_current_user,
                   registered, nreq, save_result, phase>>

\* lines 235-252 of register: every check, the username test of line 245
\* among them, against the users as they are now; the hash is computed
ThreadRegisterValidate(t, salt) ==
    /\ threads[t].op = "register"
    /\ threads[t].pc = "validate"
    /\ LET r == register(threads[t].body, users, salt)
       IN  /\ r.save \/ salt = 1
           /\ threads' = [threads EXCEPT ![t] =
                             IF r.save
                             THEN [@ EXCEPT !.pc = "store",
                                     !.pending = r.users[strip(DictGet(threads[t].body.o, "username").s)]]
                             ELSE [@ EXCEPT !.pc = "done", !.response = r.response]]
    /\ UNCHANGED <<books, users, users_file, request, response, g_current_user,
                   registered, nreq, save_result, phase>>

\* line 253: users[username] = {"password_hash": pw_hash}
ThreadRegisterStore(t) ==
    /\ threads[t].op = "register"
    /\ threads[t].pc = "store"
    /\ users' = (strip(DictGet(threads[t].body.o, "username").s) :> threads[t].pending)
                 @@ users
    /\ threads' = [threads EXCEPT ![t] = [@ EXCEPT !.pc = "save"]]
    /\ UNCHANGED <<books, users_file, request, response, g_current_user,
                   registered, nreq, save_result, phase>>

\* lines 254-256: save_users of the mapping as it is now, then the 201
ThreadRegisterSave(t, outcome) ==
    /\ threads[t].op = "register"
    /\ threads[t].pc = "save"
    /\ users_file' = save_users(users, users_file, outcome)
    /\ save_result' = outcome
    /\ threads' = [threads EXCEPT ![t] =
                      [@ EXCEPT !.pc = "done",
                                !.response = Json(201, "message",
                                                  "User registered successfully")]]
    /\ UNCHANGED <<books, users, request, response, g_current_user,
                   registered, nreq, phase>>

NextConcurrent ==
    \E t \in ThreadIds :
        \/ ThreadRequireAuth(t)
        \/ ThreadCreateValidate(t)
        \/ ThreadCreateInsert(t)
        \/ \E salt \in Salts : ThreadRegisterValidate(t, salt)
        \/ ThreadRegisterStore(t)
        \/ \E outcome \in SaveOutcomes : ThreadRegisterSave(t, outcome)

SpecConcurrent == InitConcurrent /\ [][NextConcurrent]_vars

-----------------------------------------------------------------------------
(* The module body, lines 112-120, as a step of its own: the program starts *)
(* with whatever users.json holds and serves registrations afterwards.      *)

\* one entry of a hand-written or damaged users.json: a user record, a
\* mapping without "password_hash", a value that is not a mapping
FileEntries ==
    { FileEntry(TRUE, TRUE, generate_password_hash(S_Passw0rd, 1)),
      FileEntry(TRUE, FALSE, GarbageHash),
      FileEntry(FALSE, FALSE, GarbageHash) }
FileUsernames == {S_admin, S_carol}
StartupFiles ==
    { File(kind, <<>>) : kind \in {"missing", "unreadable", "notjson", "json_other",
                                   "undecodable", "too_deep"} }
    \cup { File("json_dict", data) :
              data \in UNION { [names -> FileEntries] : names \in SUBSET FileUsernames } }

InitImport ==
    \E file \in StartupFiles :
        /\ books = SeedBooks
        /\ users = <<>>
        /\ users_file = file
        /\ registered = <<>>
        /\ request = NoRequest
        /\ response = NoResponse
        /\ g_current_user = <<>>
        /\ nreq = 0
        /\ save_result = "none"
        /\ phase = "import"
        /\ threads = <<>>

\* an exception of load_users ends the import: no users, no server
ModuleStartup(salt, outcome) ==
    /\ phase = "import"
    /\ IF load_users_raises(users_file) # ""
       THEN /\ phase' = "crashed"
            /\ response' = Uncaught(load_users_raises(users_file))
            /\ UNCHANGED <<users, users_file, registered, save_result>>
       ELSE /\ phase' = "serving"
            /\ users' = Startup(users_file, salt, outcome).users
            /\ users_file' = Startup(users_file, salt, outcome).users_file
            /\ registered' = IF load_users(users_file) = <<>>
                              THEN S_admin :> S_admin123 ELSE <<>>
            /\ save_result' = IF load_users(users_file) = <<>> THEN outcome ELSE "none"
            /\ UNCHANGED response
    /\ UNCHANGED <<books, request, g_current_user, nreq, threads>>

NextStartup ==
    \/ \E salt \in Salts, outcome \in SaveOutcomes : ModuleStartup(salt, outcome)
    \/ \E body \in RegisterBodies, salt \in Salts, outcome \in SaveOutcomes :
           Register(body, salt, outcome)

SpecStartup == InitImport /\ [][NextStartup]_vars

-----------------------------------------------------------------------------
(* Properties.  In an action formula the unprimed variables are the state   *)
(* before a request and request', response', g_current_user' the request,  *)
(* its result and the identity the decorator established for it.           *)

Field(book, f) == IF f \in DOMAIN book THEN book[f] ELSE JNull
IsProtected(req) ==
    \/ req.path = "/me"
    \/ req.path = "/books" /\ req.method = "POST"
    \/ req.path = "/books/<id>" /\ req.method \in {"PUT", "DELETE"}
IsGetBook(req) == req.method = "GET" /\ req.path = "/books/<id>"
IsListBooks(req) == req.method = "GET" /\ req.path = "/books"
IsCreate(req) == req.method = "POST" /\ req.path = "/books"
IsUpdate(req) == req.method = "PUT" /\ req.path = "/books/<id>"
IsDelete(req) == req.method = "DELETE" /\ req.path = "/books/<id>"
IsRegister(req) == req.method = "POST" /\ req.path = "/register"
Submitted(req, key) == DictGet(req.json.o, key)

\* C1: an update or delete of an existing book with valid credentials of an
\* identity other than the book's owner returns 403 and changes neither the
\* catalog nor the users, and GET /books/{id} and GET /books still return the
\* book.
C1_ForeignWriteForbiddenReadAllowed ==
    [][LET k == JStr(request'.book_id)
       IN  /\ (/\ IsUpdate(request') \/ IsDelete(request')
               /\ g_current_user' # <<>>
               /\ k \in DOMAIN books
               /\ "owner" \in DOMAIN books[k]
               /\ books[k]["owner"] # JStr(g_current_user'))
              => (response'.status = 403 /\ books' = books /\ users' = users)
           /\ (IsGetBook(request') /\ k \in DOMAIN books)
              => (/\ response'.status = 200
                  /\ response'.value = [f \in BookFields |-> Field(books[k], f)])
           /\ IsListBooks(request')
              => (response'.status = 200 /\ DOMAIN response'.value = DOMAIN books)
      ]_vars

\* C2: for an account created by /register or by the bootstrap, a protected
\* request with the password it was created with is authenticated as that
\* username; with any other non-empty password it gets the 401
\* "Invalid username or password" of the decorator and nothing is changed.
C2_ExactPasswordOnly ==
    [][LET auth == request'.authorization
       IN  (IsProtected(request') /\ auth.present /\ auth.username \in DOMAIN registered)
           => /\ auth.password = registered[auth.username]
                 => (g_current_user' = auth.username /\ ~ response'.challenge)
              /\ (auth.password # registered[auth.username] /\ auth.password # <<>>)
                 => (/\ response' = Challenge("Invalid username or password")
                     /\ g_current_user' = <<>>
                     /\ UNCHANGED <<books, users, users_file>>)
      ]_vars
C2_Witness ==
    /\ request.path = "/me"
    /\ request.authorization.username = S_carol
    /\ S_carol \in DOMAIN registered
    /\ response = JsonValue(200, "username", "", S_carol)

\* C3: every rejection of a request that carries a non-empty username and a
\* non-empty password is the same response (401, "detail", "Invalid username
\* or password", with the challenge), whether or not the username is in the
\* store.
C3_RejectionsIndistinguishable ==
    [][LET auth == request'.authorization
       IN  (/\ IsProtected(request')
            /\ auth.present /\ auth.username # <<>> /\ auth.password # <<>>
            /\ g_current_user' = <<>>)
           => response' = Challenge("Invalid username or password")
      ]_vars
C3_Witness ==
    /\ IsProtected(request)
    /\ request.authorization.username = S_mallory
    /\ S_mallory \notin DOMAIN users
    /\ S_carol \in DOMAIN users
    /\ response = Challenge("Invalid username or password")

\* C4 as stated: registering a username that is in the store fails with 400
\* "username already exists" whatever the password (valid, policy-violating
\* or empty) and leaves the users mapping unchanged.
C4_DuplicateAlwaysConflict ==
    [][(/\ IsRegister(request')
        /\ Submitted(request', "username").t = "str"
        /\ strip(Submitted(request', "username").s) \in DOMAIN users)
       => (response' = Json(400, "error", "username already exists") /\ users' = users)
      ]_vars
\* C4 amended: registering a username that, stripped of surrounding
\* whitespace, is in the store always fails with 400 and leaves the users
\* mapping unchanged; the error is "username already exists" when the name
\* has at least 3 characters and the password is non-empty (valid or not),
\* and "username and password are required" when the password is empty or
\* missing.
C4_DuplicateRejected ==
    [][LET name == Submitted(request', "username")
           password == Submitted(request', "password")
       IN  (IsRegister(request') /\ name.t = "str" /\ strip(name.s) \in DOMAIN users)
           => /\ response'.status = 400
              /\ users' = users
              /\ (Len(strip(name.s)) >= 3 /\ Truthy(password))
                 => response' = Json(400, "error", "username already exists")
              /\ ~ Truthy(password)
                 => response' = Json(400, "error", "username and password are required")
      ]_vars
C4_Witness ==
    /\ IsRegister(request)
    /\ Submitted(request, "username") = JStr(S_admin)
    /\ Submitted(request, "password") = JStr(S_short1)
    /\ S_admin \in DOMAIN users
    /\ response = Json(400, "error", "username already exists")

\* C5 as stated: a 201 create stores the book under the submitted id with the
\* authenticated identity as owner, and the GET of that id that follows
\* returns exactly the submitted title, author, publisher, year, genre and
\* stock with that owner.
C5_CreateThenGetSubmitted ==
    [][/\ (IsCreate(request') /\ response'.status = 201)
          => (/\ Submitted(request', "id") \in DOMAIN books'
              /\ g_current_user' = request'.authorization.username
              /\ books'[Submitted(request', "id")]["owner"] = JStr(g_current_user'))
       /\ (/\ IsCreate(request) /\ response.status = 201
           /\ IsGetBook(request') /\ JStr(request'.book_id) = Submitted(request, "id"))
          => (/\ response'.status = 200
              /\ \A f \in RequiredFields : response'.value[f] = Submitted(request, f)
              /\ response'.value["owner"] = JStr(request.authorization.username))
      ]_vars
\* C5 amended: as stated, except that year and stock are returned as the
\* integers int(year) and int(stock) of the submitted values (title, author,
\* publisher and genre are returned as submitted).
C5_CreateThenGetCoerced ==
    [][/\ (IsCreate(request') /\ response'.status = 201)
          => (/\ Submitted(request', "id") \in DOMAIN books'
              /\ g_current_user' = request'.authorization.username
              /\ books'[Submitted(request', "id")]["owner"] = JStr(g_current_user'))
       /\ (/\ IsCreate(request) /\ response.status = 201
           /\ IsGetBook(request') /\ JStr(request'.book_id) = Submitted(request, "id"))
          => (/\ response'.status = 200
              /\ \A f \in RequiredFields \ {"year", "stock"} :
                     response'.value[f] = Submitted(request, f)
              /\ \A f \in {"year", "stock"} :
                     /\ int(Submitted(request, f)).exc = ""
                     /\ response'.value[f] = JInt(int(Submitted(request, f)).val)
              /\ response'.value["id"] = Submitted(request, "id")
              /\ response'.value["owner"] = JStr(request.authorization.username))
      ]_vars
C5_Witness ==
    /\ IsGetBook(request)
    /\ request.book_id = S_BK100
    /\ response.status = 200
    /\ response.value["owner"] = JStr(S_carol)
    /\ response.value["year"] = JInt(2020)
    /\ nreq = 2

\* C6: an authenticated create is rejected with 400 and leaves the catalog
\* unchanged whenever the id is missing or already in the catalog, a required
\* field is missing, or year or stock is not integer-coercible.
C6_InvalidCreateRejected ==
    [][(/\ IsCreate(request') /\ g_current_user' # <<>>
        /\ request'.json.t = "obj"
        /\ \/ ~ Truthy(Submitted(request', "id"))
           \/ Submitted(request', "id") \in DOMAIN books
           \/ ~ (RequiredFields \subseteq Keys(request'.json.o))
           \/ int(Submitted(request', "year")).exc # ""
           \/ int(Submitted(request', "stock")).exc # "")
       => (response'.status = 400 /\ books' = books)
      ]_vars

\* C7: a DELETE that returns 200 removes the id and nothing else; while an id
\* is not in the catalog GET /books/{id} returns 404, GET /books does not
\* list it and a DELETE with valid credentials returns 404; and an id enters
\* the catalog only by a create of that id that returns 201.
C7_DeletedStaysGone ==
    [][LET k == JStr(request'.book_id)
       IN  /\ (IsDelete(request') /\ response'.status = 200)
              => (/\ k \in DOMAIN books
                  /\ DOMAIN books' = DOMAIN books \ {k}
                  /\ \A b \in DOMAIN books' : books'[b] = books[b])
           /\ (IsGetBook(request') /\ k \notin DOMAIN books)
              => response' = Json(404, "error", "Book not found")
           /\ (IsListBooks(request') /\ response'.status = 200)
              => DOMAIN response'.value = DOMAIN books
           /\ (IsDelete(request') /\ g_current_user' # <<>> /\ k \notin DOMAIN books)
              => (response' = Json(404, "error", "Book not found") /\ books' = books)
           /\ \A b \in DOMAIN books' \ DOMAIN books :
                  /\ IsCreate(request') /\ response'.status = 201
                  /\ Submitted(request', "id") = b
      ]_vars
C7_Witness ==
    /\ IsDelete(request)
    /\ request.book_id = S_BK001
    /\ g_current_user = S_admin
    /\ JStr(S_BK001) \notin DOMAIN books
    /\ response = Json(404, "error", "Book not found")

\* C8: an owner's update whose year or stock is not integer-coercible returns
\* 400 and changes no field of the book.
C8_UpdateAllOrNothing ==
    [][LET k == JStr(request'.book_id)
       IN  (/\ IsUpdate(request') /\ g_current_user' # <<>>
            /\ k \in DOMAIN books
            /\ Field(books[k], "owner") = JStr(g_current_user')
            /\ request'.json.t = "obj"
            /\ \/ /\ "year" \in Keys(request'.json.o)
                  /\ int(Submitted(request', "year")).exc # ""
               \/ /\ "stock" \in Keys(request'.json.o)
                  /\ int(Submitted(request', "stock")).exc # "")
           => (response'.status = 400 /\ books' = books)
      ]_vars

\* C9: while a book is in the catalog its owner is the identity that created
\* it and its id is the key it is stored under, whatever requests are made;
\* an update whose body names id or owner still succeeds.
C9_OwnerAndIdImmutable ==
    [][/\ \A k \in DOMAIN books \cap DOMAIN books' :
              /\ Field(books'[k], "owner") = Field(books[k], "owner")
              /\ Field(books'[k], "id") = k
       /\ \A k \in DOMAIN books' \ DOMAIN books :
              /\ Field(books'[k], "owner") = JStr(g_current_user')
              /\ Field(books'[k], "id") = k
       /\ (/\ IsUpdate(request') /\ g_current_user' # <<>>
           /\ request'.json.t = "obj"
           /\ Keys(request'.json.o) \cap {"id", "owner"} # {}
           /\ Keys(request'.json.o) \subseteq BookFields
           /\ \A f \in Keys(request'.json.o) \cap {"year", "stock"} :
                  int(Submitted(request', f)).exc = ""
           /\ JStr(request'.book_id) \in DOMAIN books
           /\ BookFields \subseteq DOMAIN books[JStr(request'.book_id)]
           /\ books[JStr(request'.book_id)]["owner"] = JStr(g_current_user'))
          => response'.status = 200
      ]_vars

\* C10: an update that returns 200 sets exactly the mutable fields the payload
\* names (year and stock as integers) and changes nothing else: not the other
\* fields of the book, not another book, not the users; a payload key that is
\* not a mutable field changes nothing.
C10_UpdateFrame ==
    [][LET k == JStr(request'.book_id)
           named == Keys(request'.json.o) \cap RequiredFields
       IN  (IsUpdate(request') /\ response'.status = 200)
           => /\ DOMAIN books' = DOMAIN books
              /\ \A b \in DOMAIN books \ {k} : books'[b] = books[b]
              /\ users' = users
              /\ DOMAIN books'[k] = DOMAIN books[k]
              /\ \A f \in DOMAIN books[k] \ named : books'[k][f] = books[k][f]
              /\ \A f \in named \ {"year", "stock"} :
                     books'[k][f] = Submitted(request', f)
              /\ \A f \in named \cap {"year", "stock"} :
                     books'[k][f] = JInt(int(Submitted(request', f)).val)
      ]_vars

\* C11: whatever was authenticated before, a request to GET /me, POST /books,
\* PUT /books/{id} or DELETE /books/{id} without credentials, with an empty
\* username or password, or with credentials the users mapping does not
\* accept returns 401 with the Basic challenge and changes neither the
\* catalog nor the users; and a handler that runs works with the identity of
\* that request's own credentials: /me returns it, a created book is owned by
\* it, and an update or delete that succeeds is of a book it owns.
ValidCredentials(auth, usrs) ==
    /\ auth.present
    /\ auth.username # <<>>
    /\ auth.password # <<>>
    /\ auth.username \in DOMAIN usrs
    /\ check_password_hash(usrs[auth.username].password_hash, auth.password)
C11_AuthenticationPerRequest ==
    [][IsProtected(request') =>
       LET auth == request'.authorization
           k == JStr(request'.book_id)
       IN  /\ ~ ValidCredentials(auth, users)
              => (/\ response'.status = 401
                  /\ response'.challenge
                  /\ g_current_user' = <<>>
                  /\ UNCHANGED <<books, users, users_file>>)
           /\ ValidCredentials(auth, users)
              => (/\ g_current_user' = auth.username
                  /\ response'.status # 401
                  /\ request'.path = "/me"
                     => (response'.status = 200 /\ response'.value = auth.username)
                  /\ (IsCreate(request') /\ response'.status = 201)
                     => books'[Submitted(request', "id")]["owner"] = JStr(auth.username)
                  /\ ((IsUpdate(request') \/ IsDelete(request')) /\ response'.status = 200)
                     => books[k]["owner"] = JStr(auth.username))
      ]_vars
\* a delete without credentials is refused right after carol created a book
C11_Witness ==
    /\ IsDelete(request)
    /\ ~ request.authorization.present
    /\ response.status = 401
    /\ JStr(S_BK100) \in DOMAIN books
    /\ books[JStr(S_BK100)]["owner"] = JStr(S_carol)
    /\ JStr(S_BK001) \in DOMAIN books
    /\ nreq = 2

\* C12: GET /books and GET /books/{id} answer without credentials (never the
\* 401 challenge) and change neither the catalog nor the users; what a GET of
\* an id returns is the stored record of that id, so two GETs of the same id
\* (or two listings) with no write in between return the same response, with
\* or without credentials; and a GET of an id that is not in the catalog
\* returns 404.
C12_ReadsPublicAndPure ==
    [][LET k == JStr(request'.book_id)
       IN  /\ (IsGetBook(request') \/ IsListBooks(request'))
              => (/\ response'.status # 401
                  /\ ~ response'.challenge
                  /\ UNCHANGED <<books, users, users_file>>)
           /\ (IsGetBook(request') /\ k \notin DOMAIN books)
              => response'.status = 404
           /\ (IsGetBook(request') /\ response'.status = 200)
              => (/\ k \in DOMAIN books
                  /\ response'.value = [f \in BookFields |-> books[k][f]])
           /\ (IsGetBook(request) /\ IsGetBook(request')
               /\ request'.book_id = request.book_id)
              => response' = response
           /\ (IsListBooks(request) /\ IsListBooks(request'))
              => response' = response
      ]_vars
\* a second GET of a seeded book, without credentials, after a first request
C12_Witness ==
    /\ IsGetBook(request)
    /\ request.book_id = S_BK001
    /\ ~ request.authorization.present
    /\ response.status = 200
    /\ response.value["title"] = JStr(T1)
    /\ books = SeedBooks
    /\ nreq = 2

\* C13: a registration that returns 201 has put the new user into the users
\* mapping with a hash the submitted password authenticates against; if its
\* write to users.json succeeded, the file holds exactly the whole in-memory
\* mapping (every user, whatever happened to earlier writes) and loads back
\* to it; if the write failed, the file is as it was, and the answer is 201
\* all the same.
C13_SaveWholeMappingBestEffort ==
    [][(IsRegister(request') /\ response'.status = 201) =>
       LET username == strip(Submitted(request', "username").s)
           password == Submitted(request', "password").s
       IN  /\ username \notin DOMAIN users
           /\ DOMAIN users' = DOMAIN users \cup {username}
           /\ require_auth(Authorization(username, password), users').ok
           /\ save_result' \in {"ok", "oserror"}
           /\ save_result' = "ok"
              => (/\ users_file'.kind = "json_dict"
                  /\ DOMAIN users_file'.data = DOMAIN users'
                  /\ load_users(users_file') = users')
           /\ save_result' = "oserror" => users_file' = users_file
      ]_vars
\* carol registered with 201 although neither her write nor the bootstrap's
\* reached the file
C13_Witness ==
    /\ IsRegister(request)
    /\ response.status = 201
    /\ save_result = "oserror"
    /\ users_file.kind = "missing"
    /\ DOMAIN users = {S_admin, S_carol}

\* C14: whatever users.json holds (nothing, something unreadable, text that
\* is not JSON, JSON that is not a mapping, entries without password_hash,
\* bytes that are not text), load_users returns to the module body: the
\* import does not end in an exception, the loaded mapping is empty when the
\* file is missing or malformed, and it holds only the entries of the file
\* that are mappings with a password_hash.
C14_LoadNeverFails ==
    [][phase = "import" =>
       /\ phase' = "serving"
       /\ response'.status # 500
       /\ users_file.kind # "json_dict"
          => (load_users(users_file) = <<>> /\ DOMAIN users' = {S_admin})
       /\ users_file.kind = "json_dict"
          => \A u \in DOMAIN load_users(users_file) :
                 /\ u \in DOMAIN users_file.data
                 /\ users_file.data[u].is_dict
                 /\ users_file.data[u].has_hash
                 /\ DOMAIN load_users(users_file)[u] = {"password_hash"}
      ]_vars

\* C15: whatever the body of a request is (absent, an empty mapping, JSON
\* that is not a mapping, a username or password that is not a string, an id
\* that is not a string or not hashable, a year or stock that is not an
\* integer), the operation ends in one of its declared outcomes: 200, 201,
\* 400, 401, 403 or 404, never in an exception no handler catches.
C15_NoUncaughtError ==
    request # NoRequest => response.status \in {200, 201, 400, 401, 403, 404}

\* C16: a password is accepted exactly when it has at least 8 characters, at
\* least one of them alphabetic and at least one a digit: the registration
\* of a new username of 3 or more characters returns 201 for such a password
\* and 400, with the users unchanged, for any other; "short1" and
\* "alllettersnodigit" are rejected, "alllower1" and "GOOD1234" accepted; and
\* no registration returns 201 with a password outside the policy.
PolicyAccepts(password) ==
    /\ Len(password) >= 8
    /\ Cardinality({i \in 1..Len(password) : password[i] \in Letters}) >= 1
    /\ Cardinality({i \in 1..Len(password) : password[i] \in Digits}) >= 1
C16_PasswordPolicy ==
    [][IsRegister(request') =>
       LET username == Submitted(request', "username")
           password == Submitted(request', "password")
       IN  /\ response'.status = 201 => PolicyAccepts(password.s)
           /\ (/\ username.t = "str" /\ Len(strip(username.s)) >= 3
               /\ strip(username.s) \notin DOMAIN users
               /\ password.t = "str" /\ password.s # <<>>)
              => (/\ PolicyAccepts(password.s) => response'.status = 201
                  /\ ~ PolicyAccepts(password.s)
                     => (response'.status = 400 /\ users' = users)
                  /\ password.s \in {S_short1, S_alllettersnodigit}
                     => response'.status = 400
                  /\ password.s \in {S_alllower1, S_GOOD1234}
                     => response'.status = 201)
      ]_vars
\* the shortest accepted kind: eight characters, one letter, the rest digits
C16_Witness ==
    /\ IsRegister(request)
    /\ Submitted(request, "password").s = <<"1", "1", "1", "a", "1", "1", "1", "1">>
    /\ response.status = 201
    /\ S_mallory \in DOMAIN users

\* C17: when requests run at the same time, of the creates of one id at most
\* one returns 201, and the book stored under that id is owned by the
\* identity of the create that returned 201; of the registrations of one
\* username at most one returns 201, and the stored hash is the one that
\* registration computed from its password.
ThreadKey(t) ==
    IF threads[t].op = "create" THEN DictGet(threads[t].body.o, "id")
    ELSE JStr(strip(DictGet(threads[t].body.o, "username").s))
Returned201(t) == threads[t].pc = "done" /\ threads[t].response.status = 201
C17_ConcurrentUniqueness ==
    \A t \in DOMAIN threads :
        Returned201(t) =>
        /\ \A o \in DOMAIN threads \ {t} :
               (threads[o].op = threads[t].op /\ ThreadKey(o) = ThreadKey(t))
               => ~ Returned201(o)
        /\ threads[t].op = "create"
           => books[ThreadKey(t)]["owner"] = JStr(threads[t].current_user)
        /\ threads[t].op = "register"
           => check_password_hash(users[ThreadKey(t).s].password_hash,
                                  DictGet(threads[t].body.o, "password").s)

\* C18: an update or delete checks, in this order, the credentials, the
\* existence of the id, the ownership and (update) the integer fields, and
\* stops at the first check that fails: without valid credentials it returns
\* 401 whether or not the id exists; with valid credentials and an id not in
\* the catalog, 404; with valid credentials of an identity that is not the
\* book's owner, 403, also when year or stock is not an integer; 400 goes
\* only to the owner; and the catalog changes only when every check passed.
C18_CheckOrder ==
    [][(IsUpdate(request') \/ IsDelete(request')) =>
       LET auth == request'.authorization
           k == JStr(request'.book_id)
           valid == ValidCredentials(auth, users)
           exists == k \in DOMAIN books
           owns == /\ exists
                   /\ "owner" \in DOMAIN books[k]
                   /\ books[k]["owner"] = JStr(auth.username)
           data == request'.json.o
           badint == /\ IsUpdate(request')
                     /\ \E f \in {"year", "stock"} :
                            f \in Keys(data) /\ int(DictGet(data, f)).exc # ""
       IN  /\ ~ valid => (response'.status = 401 /\ books' = books)
           /\ (valid /\ ~ exists) => (response'.status = 404 /\ books' = books)
           /\ (valid /\ exists /\ ~ owns) => (response'.status = 403 /\ books' = books)
           /\ response'.status = 400 => (valid /\ owns /\ badint)
           /\ books' # books => (valid /\ owns /\ ~ badint)
      ]_vars

\* C19: the module body adds the account admin with the password "admin123"
\* exactly when the mapping loaded from users.json is empty (file missing,
\* malformed, or without a valid entry), and then users.json holds that
\* mapping; otherwise the loaded mapping is the users mapping and nothing is
\* written.  Once the program serves, the users mapping is never empty, and
\* no request removes a user or changes the hash of a user that exists.
C19_BootstrapAndMonotonicUsers ==
    [][/\ phase = "import"
          => LET loaded == load_users(users_file)
             IN  /\ phase' = "serving"
                 /\ loaded = <<>>
                    => (/\ DOMAIN users' = {S_admin}
                        /\ check_password_hash(users'[S_admin].password_hash, S_admin123)
                        /\ load_users(users_file') = users')
                 /\ loaded # <<>>
                    => (users' = loaded /\ users_file' = users_file)
       /\ phase' = "serving" => users' # <<>>
       /\ phase = "serving"
          => \A u \in DOMAIN users : u \in DOMAIN users' /\ users'[u] = users[u]
      ]_vars

\* C20: in every state a request leaves behind, each book of the catalog, the
\* three seeded books of admin included, has an owner that is a username of
\* the users mapping; and so a registration that returns 201 never creates the owner
\* of a book that was in the catalog before it.
OwnersAreUsers ==
    \A k \in DOMAIN books :
        /\ "owner" \in DOMAIN books[k]
        /\ books[k]["owner"] \in {JStr(u) : u \in DOMAIN users}
LateRegistrantOwnsNothing ==
    (IsRegister(request') /\ response'.status = 201)
    => \A k \in DOMAIN books :
           Field(books[k], "owner") # JStr(strip(Submitted(request', "username").s))
C20_OwnersAreUsers == [][OwnersAreUsers' /\ LateRegistrantOwnsNothing]_vars

====
